---- MODULE Spec2Model ----
(***************************************************************************)
(* Genie-TTS text front-end: the Chinese and English sentence splitters    *)
(* and the Chinese phonemizer / BERT feature aligner.                      *)
(*                                                                         *)
(* A text is a sequence of characters; a character is a one-element        *)
(* string.  Non-ASCII characters are written by code point: "u4E2D" is the *)
(* ideograph U+4E2D, "u3002" the ideographic full stop, "u201D" the right  *)
(* double quotation mark.                                                  *)
(***************************************************************************)
EXTENDS Integers, Sequences, FiniteSets, TLC

VARIABLES
    pc,              \* "call" before the call of fn, "done" after it
    fn,              \* the function called
    long_text,       \* argument of the splitters
    first_sentence,  \* split_english_text: <<>> for None, <<chunk>> otherwise
    remaining_text,  \* split_english_text: the text left after step 1
    result,          \* the list returned by a splitter or by ChineseG2P.g2p
    text,            \* argument of g2p and of get_phonemes_and_bert
    token_len,       \* bert_output.shape[0]
    current_dim,     \* bert_output.shape[1]
    all_phonemes,    \* get_phonemes_and_bert: the phoneme list
    aligned_bert,    \* get_phonemes_and_bert: the row of bert_output behind each entry
    phoneme_ids,     \* get_phonemes_and_bert: first value returned
    final_bert,      \* get_phonemes_and_bert: second value returned
    raised           \* "none", or the exception that ended the call

splitVars == <<long_text, first_sentence, remaining_text>>
bertVars == <<text, token_len, current_dim, all_phonemes, aligned_bert,
              phoneme_ids, final_bert, raised>>
vars == <<pc, fn, result, splitVars, bertVars>>

----------------------------------------------------------------------------
(* Bounds of the checked inputs *)

MaxZhBlocks == 5
MaxEnBlocks == 5
MaxChars == 3

----------------------------------------------------------------------------
(* Character classes *)

AsciiLetters ==
    {"a","b","c","d","e","f","g","h","i","j","k","l","m",
     "n","o","p","q","r","s","t","u","v","w","x","y","z",
     "A","B","C","D","E","F","G","H","I","J","K","L","M",
     "N","O","P","Q","R","S","T","U","V","W","X","Y","Z"}

AsciiDigits == {"0","1","2","3","4","5","6","7","8","9"}

\* characters of the checked texts that lie in U+4E00..U+9FFF
HanChars == {"u4E2D", "u7231", "u7684"}

\* characters of the checked texts in U+FF21..U+FF3A, U+FF41..U+FF5A, U+FF10..U+FF19
FullwidthAlnum == {"uFF21", "uFF41", "uFF17"}

\* what str.strip(), str.lstrip() and the regex class \s take for white space
Whitespace == {" ", "\t", "\n", "\r", "\f"}

IsSpace(c) == c \in Whitespace

----------------------------------------------------------------------------
(* Python string helpers *)

RECURSIVE LStrip(_)
LStrip(s) ==
    IF s = <<>> THEN <<>>
    ELSE IF IsSpace(Head(s)) THEN LStrip(Tail(s)) ELSE s

RECURSIVE RStrip(_)
RStrip(s) ==
    IF s = <<>> THEN <<>>
    ELSE IF IsSpace(s[Len(s)]) THEN RStrip(SubSeq(s, 1, Len(s) - 1)) ELSE s

Strip(s) == RStrip(LStrip(s))

\* s without its white space
StripWs(s) == SelectSeq(s, LAMBDA c : ~IsSpace(c))

\* number of characters of s that lie in the class valid
RECURSIVE CountIn(_, _)
CountIn(s, valid) ==
    IF s = <<>> THEN 0
    ELSE (IF Head(s) \in valid THEN 1 ELSE 0) + CountIn(Tail(s), valid)

\* s[i..] begins with a maximal run of characters of class; the result is the
\* index of the last character of that run (i - 1 when the run is empty)
RECURSIVE RunEnd(_, _, _)
RunEnd(s, i, class) ==
    IF i <= Len(s) /\ s[i] \in class THEN RunEnd(s, i + 1, class) ELSE i - 1

RECURSIVE Flatten(_)
Flatten(ss) == IF ss = <<>> THEN <<>> ELSE Head(ss) \o Flatten(Tail(ss))

----------------------------------------------------------------------------
(* Chinese/Split.py *)

ZH_MIN_SENTENCE_LENGTH == 5

\* U+FF0C U+3002 U+FF01 U+FF1F U+2026 and , . ? !
ZH_SENTENCE_TERMINATORS ==
    {"uFF0C", "u3002", "uFF01", "uFF1F", "u2026", ",", ".", "?", "!"}

VALID_CHAR_PATTERN == HanChars \cup AsciiLetters \cup FullwidthAlnum \cup AsciiDigits

get_valid_text_length(sentence) == CountIn(sentence, VALID_CHAR_PATTERN)

\* re.split('(?<=[TERMINATORS])', s): cut after every terminator character;
\* a text that ends in a terminator yields a last, empty piece
RECURSIVE ReSplitAfter(_, _, _)
ReSplitAfter(s, i, cur) ==
    IF i > Len(s) THEN <<cur>>
    ELSE IF s[i] \in ZH_SENTENCE_TERMINATORS
         THEN <<Append(cur, s[i])>> \o ReSplitAfter(s, i + 1, <<>>)
         ELSE ReSplitAfter(s, i + 1, Append(cur, s[i]))

\* [s.strip() for s in raw_sentences if s.strip()]
RECURSIVE StripAndFilter(_)
StripAndFilter(ss) ==
    IF ss = <<>> THEN <<>>
    ELSE IF Strip(Head(ss)) # <<>>
         THEN <<Strip(Head(ss))>> \o StripAndFilter(Tail(ss))
         ELSE StripAndFilter(Tail(ss))

\* the merge loop of split_chinese_text
RECURSIVE ZhMergeLoop(_, _)
ZhMergeLoop(raw_sentences, final_sentences) ==
    IF raw_sentences = <<>> THEN final_sentences
    ELSE LET sentence  == Head(raw_sentences)
             clean_len == get_valid_text_length(sentence)
             n         == Len(final_sentences)
         IN  IF final_sentences # <<>> /\ clean_len < ZH_MIN_SENTENCE_LENGTH
             THEN ZhMergeLoop(Tail(raw_sentences),
                      [final_sentences EXCEPT ![n] = final_sentences[n] \o sentence])
             ELSE ZhMergeLoop(Tail(raw_sentences), Append(final_sentences, sentence))

\* split_chinese_text returning the raw sentences, the merge loop left out
SplitChineseNoMerge(txt) ==
    IF txt = <<>> THEN <<>>
    ELSE StripAndFilter(ReSplitAfter(txt, 1, <<>>))

\* split_chinese_text without the filter "if s.strip()" on the raw sentences
SplitChineseNoFilter(txt) ==
    IF txt = <<>> THEN <<>>
    ELSE ZhMergeLoop(ReSplitAfter(txt, 1, <<>>), <<>>)

split_chinese_text(txt) ==
    IF txt = <<>> THEN <<>>
    ELSE LET raw_sentences == StripAndFilter(ReSplitAfter(txt, 1, <<>>))
         IN  IF raw_sentences = <<>>
             THEN (IF Strip(txt) # <<>> THEN <<txt>> ELSE <<>>)
             ELSE ZhMergeLoop(raw_sentences, <<>>)

----------------------------------------------------------------------------
(* G2P/English/Split.py *)

MIN_FIRST_SENTENCE_LENGTH == 10
MIN_SENTENCE_LENGTH == 15

FIRST_SENTENCE_TERMINATORS == {",", ".", "!", "?", ";"}
SENTENCE_TERMINATORS == {".", "!", "?"}
\* the characters of the class [CLOSING_PUNCTUATION]: the double quote, the
\* apostrophe, the grave accent (u0060), U+201D, U+2019, and ) } ]
CLOSING_PUNCTUATION == {"\"", "'", "u0060", "u201D", "u2019", ")", "}", "]"}

VALID_CHAR_PATTERN_EN == AsciiLetters \cup AsciiDigits

get_valid_text_length_en(sentence) == CountIn(sentence, VALID_CHAR_PATTERN_EN)

\* match.end() of the match of [terminators]+[CLOSING_PUNCTUATION]*\s* that
\* starts at the terminator s[i]
\* MatchEnd for the pattern [terminators]+\s*, the closing class forgotten
MatchEndNoClosing(s, i, terminators) ==
    RunEnd(s, RunEnd(s, i, terminators) + 1, Whitespace)

MatchEnd(s, i, terminators) ==
    LET t == RunEnd(s, i, terminators)
        c == RunEnd(s, t + 1, CLOSING_PUNCTUATION)
    IN  RunEnd(s, c + 1, Whitespace)

\* pattern.finditer(s): the match ends, left to right, of the non-overlapping
\* matches found from position i on
RECURSIVE FindIter(_, _, _)
FindIter(s, i, terminators) ==
    IF i > Len(s) THEN <<>>
    ELSE IF s[i] \in terminators
         THEN LET e == MatchEnd(s, i, terminators)
              IN  <<e>> \o FindIter(s, e + 1, terminators)
         ELSE FindIter(s, i + 1, terminators)

\* the loop body of step 1: the first match end whose prefix is long enough,
\* 0 when the loop ends without break
RECURSIVE FirstCut(_, _)
FirstCut(s, ends) ==
    IF ends = <<>> THEN 0
    ELSE IF get_valid_text_length_en(SubSeq(s, 1, Head(ends))) >= MIN_FIRST_SENTENCE_LENGTH
         THEN Head(ends)
         ELSE FirstCut(s, Tail(ends))

\* the loop of step 2: the stripped pieces between successive match ends
RECURSIVE RawOtherLoop(_, _, _)
RawOtherLoop(s, ends, last_end) ==
    IF ends = <<>>
    THEN (IF last_end < Len(s) THEN <<Strip(SubSeq(s, last_end + 1, Len(s)))>> ELSE <<>>)
    ELSE <<Strip(SubSeq(s, last_end + 1, Head(ends)))>>
             \o RawOtherLoop(s, Tail(ends), Head(ends))

\* [s for s in raw_other if s]
RECURSIVE DropEmpty(_)
DropEmpty(ss) ==
    IF ss = <<>> THEN <<>>
    ELSE IF Head(ss) # <<>> THEN <<Head(ss)>> \o DropEmpty(Tail(ss))
         ELSE DropEmpty(Tail(ss))

\* the for loop of _merge_short_sentences_en; yields <<merged_list, temp_sentence>>
RECURSIVE EnMergeLoop(_, _, _)
EnMergeLoop(sentences_list, merged_list, temp_sentence) ==
    IF sentences_list = <<>> THEN <<merged_list, temp_sentence>>
    ELSE LET sentence == Head(sentences_list)
             temp == IF temp_sentence # <<>>
                     THEN temp_sentence \o <<" ">> \o LStrip(sentence)
                     ELSE sentence
         IN  IF get_valid_text_length_en(temp) >= MIN_SENTENCE_LENGTH
             THEN EnMergeLoop(Tail(sentences_list), Append(merged_list, temp), <<>>)
             ELSE EnMergeLoop(Tail(sentences_list), merged_list, temp)

\* _merge_short_sentences_en dropping the leftover temp_sentence
MergeDropLeftover(sentences_list) ==
    IF sentences_list = <<>> THEN <<>>
    ELSE EnMergeLoop(sentences_list, <<>>, <<>>)[1]

_merge_short_sentences_en(sentences_list) ==
    IF sentences_list = <<>> THEN <<>>
    ELSE LET r == EnMergeLoop(sentences_list, <<>>, <<>>)
             merged_list == r[1]
             temp_sentence == r[2]
             n == Len(merged_list)
         IN  IF temp_sentence # <<>>
             THEN IF merged_list # <<>>
                  THEN [merged_list EXCEPT ![n] = merged_list[n] \o <<" ">> \o LStrip(temp_sentence)]
                  ELSE Append(merged_list, temp_sentence)
             ELSE merged_list

\* step 1 scanning the standard terminators instead of the first-sentence ones
EnFirstPassStdTerminators(txt) ==
    LET stripped == Strip(txt)
        end_pos  == FirstCut(stripped, FindIter(stripped, 1, SENTENCE_TERMINATORS))
    IN  IF end_pos = 0 THEN <<(<<>>), stripped>>
        ELSE << <<Strip(SubSeq(stripped, 1, end_pos))>>,
                Strip(SubSeq(stripped, end_pos + 1, Len(stripped))) >>

\* step 1 of split_english_text: <<first_sentence, remaining_text>>; the
\* first component is <<>> for None and <<chunk>> otherwise
EnFirstPass(txt) ==
    LET stripped == Strip(txt)
        end_pos  == FirstCut(stripped, FindIter(stripped, 1, FIRST_SENTENCE_TERMINATORS))
    IN  IF end_pos = 0 THEN <<(<<>>), stripped>>
        ELSE << <<Strip(SubSeq(stripped, 1, end_pos))>>,
                Strip(SubSeq(stripped, end_pos + 1, Len(stripped))) >>

\* step 2 without the call of _merge_short_sentences_en
EnOtherNoMerge(remaining) ==
    IF remaining = <<>> THEN <<>>
    ELSE DropEmpty(RawOtherLoop(remaining,
             FindIter(remaining, 1, SENTENCE_TERMINATORS), 0))

\* step 2 of split_english_text
EnOtherSentences(remaining) ==
    IF remaining = <<>> THEN <<>>
    ELSE LET raw_other == DropEmpty(RawOtherLoop(remaining,
                              FindIter(remaining, 1, SENTENCE_TERMINATORS), 0))
         IN  IF raw_other # <<>> THEN _merge_short_sentences_en(raw_other) ELSE <<>>

\* step 3 of split_english_text
EnCombine(first, remaining, other_sentences) ==
    LET has_first == first # <<>> /\ first[1] # <<>>
        final_result == (IF has_first THEN first ELSE <<>>) \o other_sentences
    IN  IF other_sentences = <<>> /\ ~has_first /\ remaining # <<>>
        THEN <<remaining>>
        ELSE DropEmpty(final_result)

split_english_text(txt) ==
    IF txt = <<>> \/ Strip(txt) = <<>> THEN <<>>
    ELSE LET p == EnFirstPass(txt)
         IN  EnCombine(p[1], p[2], EnOtherSentences(p[2]))

----------------------------------------------------------------------------
(* Chinese/ChineseG2P.py.  A Python string is a sequence of characters, a   *)
(* phoneme is a string.                                                     *)

\* pypinyin.pinyin(text, style=TONE3, neutral_tone_with_five=True), the entry
\* p_list[0] of one character: its syllable with tone digit, or the character
\* itself when it has no romanization
Pinyin(c) ==
    IF c = "u4E2D" THEN <<"z", "h", "o", "n", "g", "1">>
    ELSE IF c = "u7231" THEN <<"a", "i", "4">>
    ELSE IF c = "u7684" THEN <<"d", "e", "5">>
    ELSE <<c>>

\* pypinyin's non-strict initials, in the order get_initials tries them
Initials ==
    << <<"b">>, <<"p">>, <<"m">>, <<"f">>, <<"d">>, <<"t">>, <<"n">>, <<"l">>,
       <<"g">>, <<"k">>, <<"h">>, <<"j">>, <<"q">>, <<"x">>,
       <<"z", "h">>, <<"c", "h">>, <<"s", "h">>, <<"r">>, <<"z">>, <<"c">>, <<"s">>,
       <<"y">>, <<"w">> >>

StartsWith(s, prefix) ==
    Len(prefix) <= Len(s) /\ SubSeq(s, 1, Len(prefix)) = prefix

\* get_initials(syllable, strict=False): the first initial that is a prefix
get_initials(syllable) ==
    LET hits == { k \in 1..Len(Initials) : StartsWith(syllable, Initials[k]) }
    IN  IF hits = {} THEN <<>>
        ELSE Initials[CHOOSE k \in hits : \A m \in hits : k <= m]

\* get_finals(syllable, strict=False): what follows the initial
get_finals(syllable) ==
    SubSeq(syllable, Len(get_initials(syllable)) + 1, Len(syllable))

\* str.rstrip('12345')
RECURSIVE RStripTone(_)
RStripTone(s) ==
    IF s # <<>> /\ s[Len(s)] \in {"1", "2", "3", "4", "5"}
    THEN RStripTone(SubSeq(s, 1, Len(s) - 1))
    ELSE s

\* the decomposition shared by _g2p_single_syl and the tail of the loop body
\* of _chinese_g2p
Decompose(syl_with_tone) ==
    LET syl     == RStripTone(syl_with_tone)
        rest    == SubSeq(syl_with_tone, Len(syl) + 1, Len(syl_with_tone))
        tone    == IF rest = <<>> THEN <<"5">> ELSE rest
        initial == get_initials(syl)
        final   == get_finals(syl)
    IN  (IF initial # <<>> THEN <<initial>> ELSE <<>>)
        \o (IF final # <<>> THEN <<final \o tone>> ELSE <<>>)

_g2p_single_syl(syl_with_tone) == Decompose(syl_with_tone)

\* re.search(r'\d$', s); \d also takes the full-width digits
EndsWithDigit(s) == s # <<>> /\ s[Len(s)] \in AsciiDigits \cup {"uFF17"}

\* the test "pinyin is not found" of _chinese_g2p: p_list[0] is compared with
\* syllable_with_tone, which was assigned from it
PinyinNotFound(p_list) ==
    LET syllable_with_tone == p_list[1]
    IN  syllable_with_tone = p_list[1] /\ ~EndsWithDigit(syllable_with_tone)

\* one pass of the body of the loop of _chinese_g2p
ChineseG2PForEntry(p_list) ==
    IF PinyinNotFound(p_list) THEN <<p_list[1]>> ELSE Decompose(p_list[1])

RECURSIVE _chinese_g2p(_)
_chinese_g2p(t) ==
    IF t = <<>> THEN <<>>
    ELSE ChineseG2PForEntry(<<Pinyin(Head(t))>>) \o _chinese_g2p(Tail(t))

g2p(t) == IF Strip(t) = <<>> THEN <<>> ELSE _chinese_g2p(t)

\* the branch on syl_with_tone == text[i] of get_phonemes_and_bert
PhonemesForChar(t, i) ==
    LET syl_with_tone == Pinyin(t[i])
    IN  IF syl_with_tone = <<t[i]>> THEN <<syl_with_tone>>
        ELSE _g2p_single_syl(syl_with_tone)

\* bert_output[-2] on a matrix of n rows, as a row index counted from 0
SecondToLast(n) == n - 2

\* the row index chosen for one character and the cursor after it
PickRow(bert_idx, n) ==
    IF bert_idx < n - 1 THEN <<bert_idx, bert_idx + 1>>
    ELSE <<SecondToLast(n), bert_idx>>

\* the alignment loop: <<all_phonemes, aligned_bert>>, aligned_bert holding the
\* row index (from 0) of bert_output that each entry refers to
RECURSIVE AlignLoop(_, _, _, _, _, _)
AlignLoop(t, i, n, bert_idx, phs, rows) ==
    IF i > Len(t) THEN <<phs, rows>>
    ELSE LET phonemes_for_char == PhonemesForChar(t, i)
             pick == PickRow(bert_idx, n)
         IN  AlignLoop(t, i + 1, n, pick[2],
                       phs \o phonemes_for_char,
                       rows \o [k \in 1..Len(phonemes_for_char) |-> pick[1]])

target_dim == 1024

\* bert_output[r]: the encoder's row r (from 0), dim entries, none of them 0
BertRow(r, dim) == [j \in 1..dim |-> (r + 1) * 2048 + j]

\* step 3: pad with zeros or cut to target_dim
PadOrTruncate(row, dim) ==
    IF dim < target_dim
    THEN LET padding_size == target_dim - dim
         IN  row \o [j \in 1..padding_size |-> 0]
    ELSE SubSeq(row, 1, target_dim)

\* symbol_to_id_v2: the symbols of the checked texts, "UNK" first
SymbolTable ==
    << <<"U", "N", "K">>, <<"z", "h">>, <<"o", "n", "g", "1">>, <<"a", "i", "4">>,
       <<"d">>, <<"e", "5">>, <<"u3002">> >>

\* symbol_to_id_v2.get(ph, symbol_to_id_v2["UNK"])
SymbolToId(ph) ==
    IF \E k \in 1..Len(SymbolTable) : SymbolTable[k] = ph
    THEN (CHOOSE k \in 1..Len(SymbolTable) : SymbolTable[k] = ph) - 1
    ELSE 0

----------------------------------------------------------------------------
(* Checked inputs: texts built from at most MaxZhBlocks / MaxEnBlocks blocks, *)
(* and texts of at most MaxChars characters for the phonemizer               *)

Rep(c, n) == [i \in 1..n |-> c]

ZhBlocks == { Rep("u4E2D", 1), Rep("u4E2D", 5), <<"u3002">>, <<"u201D">>, <<" ">> }

EnBlocks == { Rep("a", 5), Rep("a", 10), Rep("a", 15),
              <<".">>, <<",">>, <<"\"">>, <<" ">> }

TextsOf(blocks, max) ==
    { Flatten(bs) : bs \in UNION { [1..k -> blocks] : k \in 0..max } }

ZhTexts == TextsOf(ZhBlocks, MaxZhBlocks)
EnTexts == TextsOf(EnBlocks, MaxEnBlocks)

G2PChars == {"u4E2D", "u7231", "u3002", "a", "5", "7", " "}
G2PTexts == UNION { [1..k -> G2PChars] : k \in 0..MaxChars }

\* bert_output.shape[0] for the text t: the tokenizer always emits the start
\* and the end marker, and nothing between them only when t holds nothing but
\* white space; otherwise fewer, as many or more interior tokens than characters
TokenLens(t) ==
    IF StripWs(t) = <<>> THEN {2} ELSE 3..(MaxChars + 3)
BertDims == {768, 1024, 1030}

----------------------------------------------------------------------------
(* The calls of the splitters *)

Init ==
    /\ pc = "call"
    /\ \/ fn = "split_chinese_text" /\ long_text \in ZhTexts
       \/ fn = "split_english_text" /\ long_text \in EnTexts
    /\ first_sentence = <<>>
    /\ remaining_text = <<>>
    /\ result = <<>>
    /\ text = <<>> /\ token_len = 0 /\ current_dim = 0
    /\ all_phonemes = <<>> /\ aligned_bert = <<>>
    /\ phoneme_ids = <<>> /\ final_bert = <<>> /\ raised = "none"

SplitChineseText ==
    /\ pc = "call"
    /\ fn = "split_chinese_text"
    /\ result' = split_chinese_text(long_text)
    /\ pc' = "done"
    /\ UNCHANGED <<fn, splitVars, bertVars>>

SplitEnglishText ==
    /\ pc = "call"
    /\ fn = "split_english_text"
    /\ LET p == IF long_text = <<>> \/ Strip(long_text) = <<>>
                THEN <<(<<>>), (<<>>)>>
                ELSE EnFirstPass(long_text)
       IN  /\ first_sentence' = p[1]
           /\ remaining_text' = p[2]
    /\ result' = split_english_text(long_text)
    /\ pc' = "done"
    /\ UNCHANGED <<fn, long_text, bertVars>>

Next == SplitChineseText \/ SplitEnglishText

Spec == Init /\ [][Next]_vars

----------------------------------------------------------------------------
(* The calls of the phonemizer and of the aligner *)

InitG2P ==
    /\ pc = "call"
    /\ text \in G2PTexts
    /\ \/ fn = "g2p" /\ token_len = 0 /\ current_dim = 0
       \/ fn = "get_phonemes_and_bert" /\ token_len \in TokenLens(text) /\ current_dim \in BertDims
    /\ result = <<>>
    /\ long_text = <<>> /\ first_sentence = <<>> /\ remaining_text = <<>>
    /\ all_phonemes = <<>> /\ aligned_bert = <<>>
    /\ phoneme_ids = <<>> /\ final_bert = <<>> /\ raised = "none"

G2P ==
    /\ pc = "call"
    /\ fn = "g2p"
    /\ result' = g2p(text)
    /\ pc' = "done"
    /\ UNCHANGED <<fn, splitVars, bertVars>>

GetPhonemesAndBert ==
    /\ pc = "call"
    /\ fn = "get_phonemes_and_bert"
    /\ LET r == AlignLoop(text, 1, token_len, 1, <<>>, <<>>)
       IN  /\ all_phonemes' = r[1]
           /\ aligned_bert' = r[2]
           /\ IF r[2] = <<>>
              THEN \* np.array([]) has shape (0,): shape[1] is out of range
                   /\ raised' = "IndexError"
                   /\ UNCHANGED <<phoneme_ids, final_bert>>
              ELSE /\ raised' = "none"
                   /\ final_bert' = [k \in 1..Len(r[2]) |->
                          PadOrTruncate(BertRow(r[2][k], current_dim), current_dim)]
                   /\ phoneme_ids' = << [k \in 1..Len(r[1]) |-> SymbolToId(r[1][k])] >>
    /\ pc' = "done"
    /\ UNCHANGED <<fn, result, splitVars, text, token_len, current_dim>>

NextG2P == G2P \/ GetPhonemesAndBert

SpecG2P == InitG2P /\ [][NextG2P]_vars

----------------------------------------------------------------------------
(* Properties *)

Done(f) == pc = "done" /\ fn = f

\* the indices of the characters of s that are not white space, in order
RECURSIVE NonWsIdx(_, _)
NonWsIdx(s, i) ==
    IF i > Len(s) THEN <<>>
    ELSE (IF IsSpace(s[i]) THEN <<>> ELSE <<i>>) \o NonWsIdx(s, i + 1)

\* how many characters that are not white space chunks 1..i hold
RECURSIVE NonWsUpTo(_, _)
NonWsUpTo(chunks, i) ==
    IF i = 0 THEN 0 ELSE NonWsUpTo(chunks, i - 1) + Len(StripWs(chunks[i]))

\* C1 as stated: every chunk returned by split_chinese_text but the last one
\* has at least MIN_SENTENCE_LENGTH = 5 valid characters.
C1_AllButLastMeetMinimum ==
    Done("split_chinese_text") =>
        \A i \in 1..(Len(result) - 1) :
            get_valid_text_length(result[i]) >= ZH_MIN_SENTENCE_LENGTH

\* C1 amended: every chunk returned by split_chinese_text but the first one
\* has at least MIN_SENTENCE_LENGTH = 5 valid characters.
C1_AllButFirstMeetMinimum ==
    Done("split_chinese_text") =>
        \A i \in 2..Len(result) :
            get_valid_text_length(result[i]) >= ZH_MIN_SENTENCE_LENGTH

\* a short first chunk, followed by a chunk into which a short sentence was merged
C1_Witness ==
    /\ Done("split_chinese_text")
    /\ Len(result) >= 2
    /\ get_valid_text_length(result[1]) < ZH_MIN_SENTENCE_LENGTH
    /\ \E k \in 1..(Len(result[2]) - 1) : result[2][k] \in ZH_SENTENCE_TERMINATORS

\* C3: both splitters lose and reorder no character that is not white space:
\* the chunks concatenated, white space removed, are the input, white space removed.
C3_NoCharacterLost ==
    (Done("split_chinese_text") \/ Done("split_english_text")) =>
        StripWs(Flatten(result)) = StripWs(long_text)

\* an English text without white space, cut in a first chunk and a chunk in
\* which the merge pass inserted a joining space
C3_Witness ==
    /\ Done("split_english_text")
    /\ StripWs(long_text) = long_text
    /\ first_sentence # <<>>
    /\ Len(result) >= 2
    /\ \E k \in 1..Len(result[Len(result)]) : result[Len(result)][k] = " "

\* C4: of the chunks returned by split_english_text, the last one excepted, a
\* first chunk made by the relaxed pass has at least MIN_FIRST_SENTENCE_LENGTH
\* = 10 valid characters and every other one at least MIN_SENTENCE_LENGTH = 15.
C4_EnglishMinimumWeights ==
    Done("split_english_text") =>
        \A i \in 1..(Len(result) - 1) :
            IF i = 1 /\ first_sentence # <<>>
            THEN /\ result[1] = first_sentence[1]
                 /\ get_valid_text_length_en(result[1]) >= MIN_FIRST_SENTENCE_LENGTH
            ELSE get_valid_text_length_en(result[i]) >= MIN_SENTENCE_LENGTH

\* a relaxed first chunk under the standard minimum, a middle chunk and a last one
C4_Witness ==
    /\ Done("split_english_text")
    /\ first_sentence # <<>>
    /\ get_valid_text_length_en(result[1]) < MIN_SENTENCE_LENGTH
    /\ Len(result) >= 3

NoCutBeforeClosing(f, terminators) ==
    Done(f) =>
        LET idx == NonWsIdx(long_text, 1)
        IN  \A i \in 1..(Len(result) - 1) :
                LET b == NonWsUpTo(result, i)
                IN  ~ /\ idx[b + 1] = idx[b] + 1
                      /\ long_text[idx[b]] \in terminators
                      /\ long_text[idx[b + 1]] \in CLOSING_PUNCTUATION

\* C9 as stated: in both splitters a closing character that directly follows a
\* terminator is in the chunk of that terminator, never the start of the next.
C9_ClosingStaysWithTerminatorBoth ==
    /\ NoCutBeforeClosing("split_chinese_text", ZH_SENTENCE_TERMINATORS)
    /\ NoCutBeforeClosing("split_english_text", FIRST_SENTENCE_TERMINATORS)

\* C9 amended: in split_english_text a closing character that directly follows
\* a terminator is in the chunk of that terminator, never the start of the next.
C9_ClosingStaysWithTerminatorEnglish ==
    NoCutBeforeClosing("split_english_text", FIRST_SENTENCE_TERMINATORS)

\* a chunk that is not the last one ends in a terminator and its closing character
C9_Witness ==
    /\ Done("split_english_text")
    /\ \E i \in 1..(Len(result) - 1) :
          LET c == result[i]
          IN  /\ Len(c) >= 2
              /\ c[Len(c)] \in CLOSING_PUNCTUATION
              /\ c[Len(c) - 1] \in FIRST_SENTENCE_TERMINATORS

\* the first index of the maximal run of characters of class that ends at
\* s[i] (i + 1 when s[i] is not of the class)
RECURSIVE RunStart(_, _, _)
RunStart(s, i, class) ==
    IF i >= 1 /\ s[i] \in class THEN RunStart(s, i - 1, class) ELSE i + 1

\* e is the end of a maximal piece of s made of first-sentence terminators,
\* then closing characters, then white space
IsFirstBoundary(s, e) ==
    LET w == RunStart(s, e, Whitespace)
        c == RunStart(s, w - 1, CLOSING_PUNCTUATION)
        t == RunStart(s, c - 1, FIRST_SENTENCE_TERMINATORS)
        goesOn == IF w <= e THEN Whitespace
                  ELSE IF c <= e THEN CLOSING_PUNCTUATION \cup Whitespace
                  ELSE FIRST_SENTENCE_TERMINATORS \cup CLOSING_PUNCTUATION \cup Whitespace
    IN  /\ t < c
        /\ e = Len(s) \/ s[e + 1] \notin goesOn

\* C10: the relaxed pass cuts the trimmed input at the earliest boundary of the
\* wide terminator set whose prefix has at least MIN_FIRST_SENTENCE_LENGTH = 10
\* valid characters; when no boundary qualifies there is no first chunk and the
\* whole trimmed text goes to the standard pass.
C10_EarliestQualifyingBoundary ==
    (Done("split_english_text") /\ Strip(long_text) # <<>>) =>
        LET s == Strip(long_text)
            q == { e \in 1..Len(s) :
                     /\ IsFirstBoundary(s, e)
                     /\ get_valid_text_length_en(SubSeq(s, 1, e)) >= MIN_FIRST_SENTENCE_LENGTH }
        IN  IF q = {}
            THEN first_sentence = <<>> /\ remaining_text = s
            ELSE LET e == CHOOSE x \in q : \A y \in q : x <= y
                 IN  /\ first_sentence = << Strip(SubSeq(s, 1, e)) >>
                     /\ remaining_text = Strip(SubSeq(s, e + 1, Len(s)))

\* a first chunk was cut at a later boundary after an earlier one was too short
C10_Witness ==
    /\ Done("split_english_text")
    /\ first_sentence # <<>>
    /\ remaining_text # <<>>
    /\ \E k \in 1..(Len(first_sentence[1]) - 1) :
          /\ first_sentence[1][k] \in FIRST_SENTENCE_TERMINATORS
          /\ first_sentence[1][k + 1] \in VALID_CHAR_PATTERN_EN

\* what C6 expects of the character c: itself as the only phoneme when the
\* romanization returns it unchanged, the decomposed syllable otherwise
ExpectedPhonemes(c) ==
    IF Pinyin(c) = <<c>> THEN << <<c>> >> ELSE Decompose(Pinyin(c))

RECURSIVE ExpectedAll(_)
ExpectedAll(t) ==
    IF t = <<>> THEN <<>> ELSE ExpectedPhonemes(Head(t)) \o ExpectedAll(Tail(t))

\* the row of bert_output C5 expects behind character k (counted from 0) of a
\* text encoded in n tokens: k + 1 while interior, the last interior row after
ExpectedRow(k, n) == IF k + 1 <= n - 2 THEN k + 1 ELSE n - 2

RECURSIVE ExpectedRows(_, _, _)
ExpectedRows(t, i, n) ==
    IF i > Len(t) THEN <<>>
    ELSE [k \in 1..Len(PhonemesForChar(t, i)) |-> ExpectedRow(i - 1, n)]
             \o ExpectedRows(t, i + 1, n)

\* C2: get_phonemes_and_bert returns a 1 x N array of ids and a matrix of N
\* rows, for every text and every number of encoder tokens.
C2_IdsAndRowsSameLength ==
    Done("get_phonemes_and_bert") =>
        /\ raised = "none"
        /\ Len(phoneme_ids) = 1
        /\ Len(phoneme_ids[1]) = Len(final_bert)

\* C5: every aligned row is an interior row 1..T-2 of the encoder output, row
\* k+1 for character k while that row is interior and the last interior row
\* on overrun, with one row per phoneme.
C5_OnlyInteriorRows ==
    Done("get_phonemes_and_bert") =>
        /\ Len(aligned_bert) = Len(all_phonemes)
        /\ \A k \in 1..Len(aligned_bert) :
              1 <= aligned_bert[k] /\ aligned_bert[k] <= token_len - 2
        /\ aligned_bert = ExpectedRows(text, 1, token_len)

\* C6: in ChineseG2P.g2p and in get_phonemes_and_bert a character that the
\* romanization returns unchanged contributes exactly one phoneme, itself.
C6_LiteralPassthrough ==
    /\ (Done("g2p") /\ Strip(text) # <<>>) => result = ExpectedAll(text)
    /\ Done("get_phonemes_and_bert") => all_phonemes = ExpectedAll(text)

\* C7: the width normalization never raises, and every row returned is the
\* selected encoder row cut or zero-padded to exactly 1024 entries.
C7_RowsHaveTargetWidth ==
    Done("get_phonemes_and_bert") =>
        /\ raised = "none"
        /\ Len(final_bert) = Len(aligned_bert)
        /\ \A k \in 1..Len(final_bert) :
              /\ Len(final_bert[k]) = 1024
              /\ \A j \in 1..1024 :
                    final_bert[k][j] =
                        IF j <= current_dim
                        THEN BertRow(aligned_bert[k], current_dim)[j]
                        ELSE 0

====
